---- MODULE Spec2Model ----
(***************************************************************************)
(* The sliding-window rate limiter of rate_limiter.py (class RateLimiter)  *)
(* and the callers that drive it (bot.py), with the HTTP client of         *)
(* bird_api.py and the contact-file parser of contact_parser.py.           *)
(*                                                                         *)
(* Time.  time.monotonic() has an arbitrary origin, and the limiter only   *)
(* ever compares a stored timestamp with the current reading.  The model   *)
(* therefore keeps every timestamp relative to the current reading: the    *)
(* reading is always `now` (0), a grant of k ticks ago is stored as -k, a  *)
(* wake-up due in k ticks as +k, and the passing of one tick (action Tick) *)
(* moves every stored time one tick towards the past.  A timestamp is not  *)
(* aged beyond MinuteHorizon ticks: from that age on it is expired for     *)
(* both windows whatever its exact age.  One tick is 1/TicksPerSecond s.   *)
(*                                                                         *)
(* Scheduling.  asyncio runs a coroutine without interruption from one     *)
(* suspension to the next, and asyncio.Lock.acquire() suspends only when   *)
(* the lock is held.  A step of a caller therefore runs from the call of   *)
(* acquire(), or from the point where it was suspended (in the sleep of    *)
(* line 72, or waiting for the lock at line 49 or 74), to its next         *)
(* suspension or to the end of acquire().                                  *)
(***************************************************************************)
EXTENDS Integers, Sequences, FiniteSets, TLC

\* ------------------------------------------------------------- bounds
NumCallers == 2
TicksPerSecond == 2

Callers == 1..NumCallers
NoOne == 0

\* The /status handler, which reads the two count properties: it is not a
\* caller of acquire() and never holds the lock.
Query == -1

\* A constructor argument or an environment variable: <<>> when absent
\* (None, unset), <<n>> when given as the integer n.
Absent == << >>
Given(n) == << n >>

\* The arguments of RateLimiter(...) and the values of the two environment
\* variables that the model tries: the limiters (2, 2), (1, 2) and those with
\* a negative limit.
SecondArgs == {Given(-1), Given(0), Given(1)}
MinuteArgs == {Absent, Given(-1)}
EnvSecond == {Given(2)}
EnvMinute == {Given(2)}

\* ------------------------------------------------------ the constants
DefaultPerSecond == 10
DefaultPerMinute == 100
SecondHorizon == 1 * TicksPerSecond
MinuteHorizon == 60 * TicksPerSecond

\* time.monotonic(): the current reading of the clock (see Time above).
now == 0

Max(a, b) == IF a >= b THEN a ELSE b
Min(a, b) == IF a <= b THEN a ELSE b

VARIABLES
    messages_per_second,  \* self.messages_per_second
    messages_per_minute,  \* self.messages_per_minute
    second_window,        \* self._second_window, head first
    minute_window,        \* self._minute_window, head first
    lock,                 \* self._lock: the caller that holds it, or NoOne
    pc,                   \* where each caller is in acquire()
    wakeAt,               \* when each sleeping caller's sleep ends
    given,                \* history: the arguments the constructor was called with
    grants,               \* history: the timestamps of the latest grants, oldest first
    started,              \* history: acquire() calls begun so far (counted up to StartedCap)
    order,                \* history: the callers in acquire() or just out of it, in order of invocation
    granted,              \* history: whether the caller's acquire() has its grant recorded
    surplus,              \* history: timestamps appended to each window minus returns of acquire()
    notBefore,            \* history: EarliestReturn at the caller's invocation
    balance,              \* history: each caller's acquisitions of the lock minus its releases
    api,                  \* the BirdAPIClient call in progress and its outcome
    upload,               \* the contact file handed to parse_contacts_file and its outcome
    sessions,             \* the HTTP sessions the BirdAPIClient has created, the latest last
    awaiting,             \* context.user_data[AWAITING_BULK_KEY] of each user
    run                   \* document_handler: the upload it is handling and how far it is

vars == << messages_per_second, messages_per_minute, second_window, minute_window,
           lock, pc, wakeAt, given, grants, started, order, granted, surplus, notBefore,
           balance, api, upload, sessions, awaiting, run >>

\* The state of the limiter and of its callers.
limiter == << messages_per_second, messages_per_minute, second_window, minute_window,
              lock, pc, wakeAt, given, grants, started, order, granted, surplus,
              notBefore, balance >>

\* The state of the handlers of bot.py.
handlers == << awaiting, run >>

\* The state of the other components.
components == << api, upload, sessions, handlers >>

config == << messages_per_second, messages_per_minute, given >>
windows == << second_window, minute_window >>

\* -------------------------------------------------------- constructor

\* Python's truth value of an optional int: None and 0 are false.
Truthy(arg) == arg # Absent /\ arg[1] # 0

\* int(os.getenv(name, default))
Getenv(env, default) == IF env = Absent THEN default ELSE env[1]

\* messages_per_second or int(os.getenv("RATE_LIMIT_MESSAGES_PER_SECOND", "10"))
InitPerSecond(arg, env) == IF Truthy(arg) THEN arg[1] ELSE Getenv(env, DefaultPerSecond)

\* messages_per_minute or int(os.getenv("RATE_LIMIT_MESSAGES_PER_MINUTE", "100"))
InitPerMinute(arg, env) == IF Truthy(arg) THEN arg[1] ELSE Getenv(env, DefaultPerMinute)

\* ------------------------------------------------------------ helpers

\* A faulty variant of the trim: `<` in place of `<=`.
RECURSIVE PopExpiredStrict(_, _)
PopExpiredStrict(window, horizon) ==
    IF window # << >> /\ Head(window) < horizon
    THEN PopExpiredStrict(Tail(window), horizon)
    ELSE window

\* while window and window[0] <= horizon: window.popleft()
RECURSIVE PopExpired(_, _)
PopExpired(window, horizon) ==
    IF window # << >> /\ Head(window) <= horizon
    THEN PopExpired(Tail(window), horizon)
    ELSE window

\* ----------------------------------------------------------- variants
\* Faulty variants of the checks, used to show that the properties below
\* depend on the code being as it is.

\* The trim of the second window with `<= now` in place of `<= now - 1`.
CleanSecondNoHorizon(t) == PopExpired(second_window, t)

\* The trim of the minute window with the horizon of the second window.
CleanMinuteSecondHorizon(t) == PopExpired(minute_window, t - SecondHorizon)

\* The caps compared with `<=` in place of `<`.
PerMinuteOkOffByOne(mw) == Len(mw) <= messages_per_minute

\* The caps with one slot held back.
PerSecondOkReserving(sw) == Len(sw) + 1 < messages_per_second
PerMinuteOkReserving(mw) == Len(mw) + 1 < messages_per_minute

\* _clean_windows(t): the two windows after the call
CleanSecond(t) == PopExpired(second_window, t - SecondHorizon)
CleanMinute(t) == PopExpired(minute_window, t - MinuteHorizon)

\* per_second_ok and per_minute_ok for the trimmed windows sw and mw
PerSecondOk(sw) == Len(sw) < messages_per_second
PerMinuteOk(mw) == Len(mw) < messages_per_minute

\* Faulty variants of the wait: one that is a tick short, one that takes the
\* smaller of the two applicable waits.
WaitShort(sw, mw, t) ==
    LET w1 == IF ~PerSecondOk(sw) THEN Max(0, sw[1] + SecondHorizon - t) ELSE 0
        w2 == IF ~PerMinuteOk(mw) THEN Max(w1, mw[1] + MinuteHorizon - t) ELSE w1
    IN  w2 - 1

WaitSmaller(sw, mw, t) ==
    IF ~PerSecondOk(sw) /\ ~PerMinuteOk(mw)
    THEN Min(sw[1] + SecondHorizon - t, mw[1] + MinuteHorizon - t)
    ELSE IF ~PerSecondOk(sw) THEN sw[1] + SecondHorizon - t
    ELSE IF ~PerMinuteOk(mw) THEN mw[1] + MinuteHorizon - t
    ELSE 0

\* The wait of lines 63-67 for the trimmed windows sw and mw at time t.
Wait(sw, mw, t) ==
    LET w1 == IF ~PerSecondOk(sw) THEN Max(0, sw[1] + SecondHorizon - t) ELSE 0
    IN  IF ~PerMinuteOk(mw) THEN Max(w1, mw[1] + MinuteHorizon - t) ELSE w1

\* Line 65 or line 67 reads the head of an empty deque: IndexError.
HeadMissing(sw, mw) ==
    \/ ~PerSecondOk(sw) /\ sw = << >>
    \/ ~PerMinuteOk(mw) /\ mw = << >>

\* ---------------------------------------------------- history helpers
\* acquire() calls are counted up to one more than the smaller limit.
StartedCap == Max(Min(messages_per_second, messages_per_minute), 0) + 1

LogCap == Max(Max(messages_per_second, messages_per_minute), 0) + 1

\* The log of grants with one more: the latest LogCap grants are kept.
Logged(g) ==
    LET all == Append(grants, g)
    IN  IF Len(all) > LogCap THEN Tail(all) ELSE all

Without(seq, c) == SelectSeq(seq, LAMBDA x: x # c)

\* The callers that come before c in the order of invocation ord.
Earlier(ord, c) ==
    {ord[i] : i \in {j \in 1..Len(ord) : \E k \in (j + 1)..Len(ord): ord[k] = c}}

\* The time before which an acquire() invoked now must not return if
\* blocking at capacity works: when messages_per_second grants lie in the
\* trailing second, one second after the oldest of them.
EarliestReturn ==
    LET n == Len(grants)
        k == messages_per_second
    IN  IF k > 0 /\ n >= k /\ grants[n - k + 1] > now - SecondHorizon
        THEN grants[n - k + 1] + SecondHorizon
        ELSE now

\* What one iteration of acquire() by c adds to surplus, from the windows it
\* found trimmed (sw, mw) and what it leaves.
Accounted(c, sw, mw) ==
    LET returned == IF pc'[c] = "done" THEN 1 ELSE 0
    IN  surplus' = [s |-> surplus.s + Len(second_window') - Len(sw) - returned,
                    m |-> surplus.m + Len(minute_window') - Len(mw) - returned]

\* Whether an access to the windows by `accessor` is made holding the lock,
\* when the lock is held by `holder` at that moment.
Guarded(accessor, holder) == accessor = holder

\* No BirdAPIClient call has been made.
NoBody == [json |-> "none", message |-> << >>]
NoOutcome == [kind |-> "none", status |-> 0, message |-> << >>, body |-> NoBody]
ApiIdle == [call |-> "none", status |-> 0, body |-> NoBody, outcome |-> NoOutcome]

\* No contact file has been handed to the parser.
NoResult == [kind |-> "none", reason |-> "", parser |-> "none", contacts |-> << >>]
NoUpload == [filename |-> << >>, data |-> << >>, outcome |-> NoResult]

\* A BirdAPIClient as constructed: self._session is None.
NoSessions == << >>

\* The users of the bot.
NumUsers == 2
Users == 1..NumUsers
NoUser == 0

\* document_handler is not running.
NoRun == [user |-> NoUser, stage |-> "idle", contacts |-> << >>, index |-> 0,
          success_count |-> 0, failure_count |-> 0, acquired |-> << >>,
          attempted |-> << >>]

\* --------------------------------------------------------------- Init
InitWith(a, b, es, em) ==
    /\ messages_per_second = InitPerSecond(a, es)
    /\ messages_per_minute = InitPerMinute(b, em)
    /\ given = << a, b >>
    /\ second_window = << >>
    /\ minute_window = << >>
    /\ lock = NoOne
    /\ pc = [c \in Callers |-> "idle"]
    /\ wakeAt = [c \in Callers |-> now]
    /\ grants = << >>
    /\ started = 0
    /\ order = << >>
    /\ granted = [c \in Callers |-> FALSE]
    /\ surplus = [s |-> 0, m |-> 0]
    /\ notBefore = [c \in Callers |-> now]
    /\ balance = [c \in Callers |-> 0]
    /\ api = ApiIdle
    /\ upload = NoUpload
    /\ sessions = NoSessions
    /\ awaiting = [u \in Users |-> FALSE]
    /\ run = NoRun

Init ==
    \E a \in SecondArgs, b \in MinuteArgs, es \in EnvSecond, em \in EnvMinute:
        InitWith(a, b, es, em)

\* ------------------------------------------------------------ actions

\* A faulty variant of the admission: the timestamp goes to the second window
\* only.
AdmitSecondOnly(c, sw, mw) ==
    /\ balance' = [balance EXCEPT ![c] = @ + 1 - 1]
    /\ second_window' = Append(sw, now)
    /\ minute_window' = mw
    /\ lock' = NoOne
    /\ pc' = [pc EXCEPT ![c] = "done"]
    /\ grants' = Logged(now)
    /\ granted' = [granted EXCEPT ![c] = TRUE]
    /\ UNCHANGED wakeAt

\* A faulty variant of the admission: the timestamp is put at the head of the
\* windows.
AdmitAtHead(c, sw, mw) ==
    /\ balance' = [balance EXCEPT ![c] = @ + 1 - 1]
    /\ second_window' = << now >> \o sw
    /\ minute_window' = << now >> \o mw
    /\ lock' = NoOne
    /\ pc' = [pc EXCEPT ![c] = "done"]
    /\ grants' = Logged(now)
    /\ granted' = [granted EXCEPT ![c] = TRUE]
    /\ UNCHANGED wakeAt

\* Lines 57-60: both windows are below their caps; the timestamp is appended
\* to both, acquire() returns and the `async with` releases the lock.  In
\* the balance, here and below, + 1 is for the lock taken at line 49 or 74
\* at the start of the step and - 1 for its release at the end.
Admit(c, sw, mw) ==
    /\ balance' = [balance EXCEPT ![c] = @ + 1 - 1]
    /\ second_window' = Append(sw, now)
    /\ minute_window' = Append(mw, now)
    /\ lock' = NoOne
    /\ pc' = [pc EXCEPT ![c] = "done"]
    /\ grants' = Logged(now)
    /\ granted' = [granted EXCEPT ![c] = TRUE]
    /\ UNCHANGED wakeAt

\* Line 65 or 67 raises IndexError: the exception leaves acquire() and the
\* `async with` releases the lock.
RaiseIndexError(c, sw, mw) ==
    /\ balance' = [balance EXCEPT ![c] = @ + 1 - 1]
    /\ second_window' = sw
    /\ minute_window' = mw
    /\ lock' = NoOne
    /\ pc' = [pc EXCEPT ![c] = "raised"]
    /\ granted' = [granted EXCEPT ![c] = FALSE]
    /\ UNCHANGED << wakeAt, grants >>

\* Faulty variants of the wait branch: one that records the timestamp although
\* it waits, one that sleeps inside the `async with` without releasing the
\* lock, and one that returns in place of waiting.
SuspendAppending(c, sw, mw) ==
    /\ balance' = [balance EXCEPT ![c] = @ + 1 - 1]
    /\ second_window' = Append(sw, now)
    /\ minute_window' = Append(mw, now)
    /\ lock' = NoOne
    /\ pc' = [pc EXCEPT ![c] = "sleep"]
    /\ wakeAt' = [wakeAt EXCEPT ![c] = now + SecondHorizon]
    /\ granted' = [granted EXCEPT ![c] = FALSE]
    /\ UNCHANGED grants

SuspendHoldingLock(c, sw, mw) ==
    /\ balance' = [balance EXCEPT ![c] = @ + 1]
    /\ second_window' = sw
    /\ minute_window' = mw
    /\ lock' = c
    /\ pc' = [pc EXCEPT ![c] = "sleep"]
    /\ wakeAt' = [wakeAt EXCEPT ![c] = now + SecondHorizon]
    /\ granted' = [granted EXCEPT ![c] = FALSE]
    /\ UNCHANGED grants

SuspendGivesUp(c, sw, mw) ==
    /\ balance' = [balance EXCEPT ![c] = @ + 1 - 1]
    /\ second_window' = sw
    /\ minute_window' = mw
    /\ lock' = NoOne
    /\ pc' = [pc EXCEPT ![c] = "done"]
    /\ granted' = [granted EXCEPT ![c] = FALSE]
    /\ UNCHANGED << wakeAt, grants >>

\* Lines 62-72: the wait is computed, the lock is released and the sleep
\* begins.
Suspend(c, sw, mw) ==
    /\ balance' = [balance EXCEPT ![c] = @ + 1 - 1]
    /\ second_window' = sw
    /\ minute_window' = mw
    /\ lock' = NoOne
    /\ pc' = [pc EXCEPT ![c] = "sleep"]
    /\ wakeAt' = [wakeAt EXCEPT ![c] = now + Wait(sw, mw, now)]
    /\ granted' = [granted EXCEPT ![c] = FALSE]
    /\ UNCHANGED grants

\* One iteration of `while True` (lines 50-72), begun with the lock held.
Iterate(c) ==
    LET sw == CleanSecond(now)
        mw == CleanMinute(now)
    IN  /\ IF PerSecondOk(sw) /\ PerMinuteOk(mw) THEN Admit(c, sw, mw)
           ELSE IF HeadMissing(sw, mw) THEN RaiseIndexError(c, sw, mw)
           ELSE Suspend(c, sw, mw)
        /\ Accounted(c, sw, mw)

\* self._lock.acquire() at line 49 or 74 finds the lock held: the caller is
\* suspended there (at).
Blocked(c, at) ==
    /\ pc' = [pc EXCEPT ![c] = at]
    /\ granted' = [granted EXCEPT ![c] = FALSE]
    /\ UNCHANGED << windows, lock, wakeAt, grants, surplus, balance >>

\* A caller invokes acquire(): `async with self._lock` (line 49) and, once
\* the lock is taken, the first iteration.
Call(c) ==
    /\ pc[c] = "idle"
    /\ started' = Min(started + 1, StartedCap)
    /\ order' = Append(Without(order, c), c)
    /\ notBefore' = [notBefore EXCEPT ![c] = EarliestReturn]
    /\ IF lock = NoOne THEN Iterate(c) ELSE Blocked(c, "lock")
    /\ UNCHANGED << config, components >>

\* Whether the event loop can resume the suspended caller: its sleep is over
\* (asyncio.sleep(wait) ends no earlier than after wait), or the lock it
\* waits for is free.
Ready(c) ==
    CASE pc[c] = "sleep" -> wakeAt[c] <= now
      [] pc[c] \in {"lock", "relock"} -> lock = NoOne
      [] OTHER -> FALSE

\* A faulty variant of the wake-up: the resumed caller is admitted without
\* another check.
WakeAdmitsUnchecked(c) ==
    /\ Ready(c)
    /\ Admit(c, CleanSecond(now), CleanMinute(now))
    /\ Accounted(c, CleanSecond(now), CleanMinute(now))
    /\ UNCHANGED << config, started, order, notBefore, components >>

\* The event loop resumes the caller.  After the sleep the finally block
\* takes the lock again (line 74), and the next iteration follows; a caller
\* that waited for the lock takes it and runs its iteration.
Wake(c) ==
    /\ Ready(c)
    /\ IF lock = NoOne THEN Iterate(c) ELSE Blocked(c, "relock")
    /\ UNCHANGED << config, started, order, notBefore, components >>

\* A faulty variant of the sender: the outbound call is issued without
\* waiting for acquire().
SendWithoutAcquire(c) ==
    /\ pc[c] \in {"idle", "done"}
    /\ pc' = [pc EXCEPT ![c] = "sent"]
    /\ UNCHANGED << config, windows, lock, wakeAt, grants, started, order, granted,
                    surplus, notBefore, balance, components >>

\* A sender of bot.py whose acquire() has returned issues its outbound call,
\* client.send_template_message(...) (bot.py line 120 in /send, line 221 in
\* the bulk loop).
Send(c) ==
    /\ pc[c] = "done"
    /\ pc' = [pc EXCEPT ![c] = "sent"]
    /\ UNCHANGED << config, windows, lock, wakeAt, grants, started, order, granted,
                    surplus, notBefore, balance, components >>

\* The caller goes on after acquire() has returned or raised, or after its
\* send: the senders of bot.py catch the exception and go on to the next
\* message; a caller that only acquires (the tests) goes on from "done".
\* After a cancellation the task is over and another one may take its place.
Resume(c) ==
    /\ pc[c] \in {"done", "sent", "raised", "cancelled"}
    /\ pc' = [pc EXCEPT ![c] = "idle"]
    /\ order' = Without(order, c)
    /\ granted' = [granted EXCEPT ![c] = FALSE]
    /\ UNCHANGED << config, windows, lock, wakeAt, grants, started, surplus, notBefore,
                    balance, components >>

\* The values the two count properties return: the sizes of the trimmed
\* windows (lines 81 and 88).
CurrentSecondCount == Len(CleanSecond(now))
CurrentMinuteCount == Len(CleanMinute(now))

\* A faulty variant of the count properties: the query takes a slot.
CurrentCountConsuming ==
    /\ second_window' = Append(CleanSecond(now), now)
    /\ minute_window' = Append(CleanMinute(now), now)
    /\ UNCHANGED << config, lock, pc, wakeAt, grants, started, order, granted,
                    surplus, notBefore, balance, components >>

\* Faulty variants of the count properties: one that drops the newest entry
\* of the second window, one that removes the head of the second window
\* whether expired or not.
CurrentCountDropsNewest ==
    /\ second_window' = SubSeq(second_window, 1, Len(second_window) - 1)
    /\ minute_window' = CleanMinute(now)
    /\ UNCHANGED << config, lock, pc, wakeAt, grants, started, order, granted,
                    surplus, notBefore, balance, components >>

CurrentCountPopsHead ==
    /\ second_window' = IF second_window = << >> THEN << >> ELSE Tail(second_window)
    /\ minute_window' = CleanMinute(now)
    /\ UNCHANGED << config, lock, pc, wakeAt, grants, started, order, granted,
                    surplus, notBefore, balance, components >>

\* current_second_count and current_minute_count: both trim both windows.
\* Neither takes the lock (lines 79-81 and 86-88), so the access is made with
\* the lock in whatever state it is, held by a caller or free.
CurrentCount ==
    /\ second_window' = CleanSecond(now)
    /\ minute_window' = CleanMinute(now)
    /\ UNCHANGED << config, lock, pc, wakeAt, grants, started, order, granted,
                    surplus, notBefore, balance, components >>

\* One tick of the clock (see Time above).
Older(t) == Max(t - 1, now - MinuteHorizon)
Sooner(t) == Max(t - 1, now)
AgeAll(seq) == [i \in 1..Len(seq) |-> Older(seq[i])]

Tick ==
    /\ second_window' = AgeAll(second_window)
    /\ minute_window' = AgeAll(minute_window)
    /\ wakeAt' = [c \in Callers |-> Sooner(wakeAt[c])]
    /\ notBefore' = [c \in Callers |-> Sooner(notBefore[c])]
    /\ grants' = SelectSeq(AgeAll(grants), LAMBDA t: t > now - MinuteHorizon)
    /\ UNCHANGED << config, lock, pc, started, order, granted, surplus, balance,
                    components >>

Next ==
    \/ \E c \in Callers: Call(c)
    \/ \E c \in Callers: Wake(c)
    \/ \E c \in Callers: Send(c)
    \/ \E c \in Callers: Resume(c)
    \/ CurrentCount
    \/ Tick

Spec == Init /\ [][Next]_vars

\* --------------------------------------------------------- fairness
\* The event loop resumes every caller that stays ready, and time passes.
Fairness ==
    /\ WF_vars(Tick)
    /\ \A c \in Callers: WF_vars(Wake(c))

\* A limiter with one grant per second and one per minute.
LiveInit == InitWith(Given(1), Given(1), Absent, Absent)

LiveSpec == LiveInit /\ [][Next]_vars /\ Fairness

\* ----------------------------------------------------- cancellation
\* A faulty variant of the cancellation: the sleep is not in a try/finally,
\* so the CancelledError reaches the `async with`, whose exit releases a
\* lock that the caller gave up at line 70.
CancelledWithoutFinally(c) ==
    /\ pc[c] \in {"sleep", "unwind"}
    /\ pc' = [pc EXCEPT ![c] = "cancelled"]
    /\ lock' = NoOne
    /\ balance' = [balance EXCEPT ![c] = @ - 1]
    /\ granted' = [granted EXCEPT ![c] = FALSE]
    /\ UNCHANGED << config, windows, wakeAt, grants, started, order, surplus,
                    notBefore, components >>

\* The task of a caller asleep at line 72 is cancelled: CancelledError is
\* raised in the sleep, the finally block takes the lock (line 74), the
\* exception leaves the `async with`, which releases the lock, and
\* acquire().  Should the lock be held at line 74, the caller is suspended
\* there with the exception pending ("unwind") until the lock is free.
Cancelled(c) ==
    /\ pc[c] \in {"sleep", "unwind"}
    /\ IF lock = NoOne
       THEN /\ pc' = [pc EXCEPT ![c] = "cancelled"]
            /\ balance' = [balance EXCEPT ![c] = @ + 1 - 1]
       ELSE /\ pc' = [pc EXCEPT ![c] = "unwind"]
            /\ UNCHANGED balance
    /\ granted' = [granted EXCEPT ![c] = FALSE]
    /\ UNCHANGED << config, windows, lock, wakeAt, grants, started, order, surplus,
                    notBefore, components >>

CancelNext ==
    \/ Next
    \/ \E c \in Callers: Cancelled(c)

\* A limiter with one grant per second and two per minute, whose callers'
\* tasks may be cancelled.
CancelInit == InitWith(Given(1), Absent, Absent, Given(2))

CancelSpec == CancelInit /\ [][CancelNext]_vars

\* ------------------------------------------------------- bird_api.py
\* The HTTP statuses the server answers with in the model.
Statuses == {200, 201, 204, 302, 399, 400, 401, 404, 422, 429, 500, 502, 503}

\* `if response.status >= 400`
ErrorStatus == 400

\* The response bodies: a JSON object with a "message" member, a JSON object
\* without one, JSON that is not an object (an array; null, which is also
\* what response.json() gives for an empty body), and a body that is not
\* JSON at all (an HTML error page).
Bodies ==
    { [json |-> "object", message |-> << "Invalid recipient" >>],
      [json |-> "object", message |-> << >>],
      [json |-> "array", message |-> << >>],
      [json |-> "null", message |-> << >>],
      [json |-> "invalid", message |-> << >>] }

\* body.get("message", str(body)) on a JSON object.
MessageOf(body) ==
    IF body.message # << >> THEN body.message ELSE << "str(body)" >>

Returned(body) ==
    [kind |-> "return", status |-> 0, message |-> << >>, body |-> body]
Raised(kind) ==
    [kind |-> kind, status |-> 0, message |-> << >>, body |-> NoBody]
BirdAPIError(status, message) ==
    [kind |-> "BirdAPIError", status |-> status, message |-> message, body |-> NoBody]

\* send_template_message, lines 125-143: the body is parsed first
\* (response.json raises on a body that is not JSON), then the status is
\* looked at; body.get exists on a dict only.
SendOutcome(status, body) ==
    IF body.json = "invalid" THEN Raised("JSONDecodeError")
    ELSE IF status >= ErrorStatus
         THEN IF body.json = "object"
              THEN BirdAPIError(status, MessageOf(body))
              ELSE Raised("AttributeError")
         ELSE Returned(body)

\* get_message_status, lines 164-168.
StatusOutcome(status, body) ==
    IF body.json = "invalid" THEN Raised("JSONDecodeError")
    ELSE IF status >= ErrorStatus
         THEN IF body.json = "object"
              THEN BirdAPIError(status, MessageOf(body))
              ELSE Raised("AttributeError")
         ELSE Returned(body)

\* bound: the sessions one client creates
MaxSessions == 3

\* self._session: the latest session created, "none" for None.
CurrentSession(ss) == IF ss = << >> THEN "none" ELSE ss[Len(ss)]

\* A faulty variant of _get_session: a new session for every call.
GetSessionAlwaysNew(ss) == Append(ss, "open")

\* _get_session (lines 48-55): a new session when there is none or the
\* latest is closed.
GetSession(ss) ==
    IF CurrentSession(ss) \in {"none", "closed"} THEN Append(ss, "open") ELSE ss

\* close (lines 59-60).
CloseSession(ss) ==
    IF CurrentSession(ss) = "open" THEN [ss EXCEPT ![Len(ss)] = "closed"] ELSE ss

SendTemplateMessage(status, body) ==
    /\ api.call = "none"
    /\ Len(GetSession(sessions)) <= MaxSessions
    /\ sessions' = GetSession(sessions)
    /\ api' = [call |-> "send_template_message", status |-> status, body |-> body,
               outcome |-> SendOutcome(status, body)]
    /\ UNCHANGED << limiter, upload, handlers >>

GetMessageStatus(status, body) ==
    /\ api.call = "none"
    /\ Len(GetSession(sessions)) <= MaxSessions
    /\ sessions' = GetSession(sessions)
    /\ api' = [call |-> "get_message_status", status |-> status, body |-> body,
               outcome |-> StatusOutcome(status, body)]
    /\ UNCHANGED << limiter, upload, handlers >>

\* The caller has the outcome of the call; the client is ready for the next.
ApiDone ==
    /\ api.call # "none"
    /\ api' = ApiIdle
    /\ UNCHANGED << limiter, upload, sessions, handlers >>

\* client.close(), between two calls.
Close ==
    /\ api.call = "none"
    /\ sessions' = CloseSession(sessions)
    /\ UNCHANGED << limiter, api, upload, handlers >>

ApiNext ==
    \/ \E status \in Statuses, body \in Bodies: SendTemplateMessage(status, body)
    \/ \E status \in Statuses, body \in Bodies: GetMessageStatus(status, body)
    \/ ApiDone
    \/ Close

ApiSpec == LiveInit /\ [][ApiNext]_vars

\* -------------------------------------------------- contact_parser.py
\* A string is a sequence of one-character strings.  A file's content is
\* the table it holds: a sequence of rows, each a sequence of cells, each a
\* string.  csv.reader yields the rows as they are (a blank line is the
\* empty row); openpyxl yields them padded to one width, with None for a
\* cell that is empty or missing.
Whitespace == {" "}
Digits == {"0", "1", "2", "3", "4", "5", "6", "7", "8", "9"}

\* str.lower() on one character.
LowerChar(ch) ==
    CASE ch = "A" -> "a" [] ch = "B" -> "b" [] ch = "C" -> "c" [] ch = "E" -> "e"
      [] ch = "H" -> "h" [] ch = "L" -> "l" [] ch = "M" -> "m" [] ch = "N" -> "n"
      [] ch = "O" -> "o" [] ch = "P" -> "p" [] ch = "S" -> "s" [] ch = "V" -> "v"
      [] ch = "X" -> "x" [] OTHER -> ch

Lower(str) == [i \in 1..Len(str) |-> LowerChar(str[i])]

\* str.strip()
RECURSIVE LStrip(_)
LStrip(str) ==
    IF str # << >> /\ Head(str) \in Whitespace THEN LStrip(Tail(str)) ELSE str

RECURSIVE RStrip(_)
RStrip(str) ==
    IF str # << >> /\ str[Len(str)] \in Whitespace
    THEN RStrip(SubSeq(str, 1, Len(str) - 1))
    ELSE str

Strip(str) == LStrip(RStrip(str))

\* str.isdigit(): non-empty and digits only.
IsDigit(str) == str # << >> /\ \A i \in 1..Len(str): str[i] \in Digits

\* The first and the last index of x in seq (0 when x is not in it).
IndexOf(seq, x) ==
    IF \E i \in 1..Len(seq): seq[i] = x
    THEN CHOOSE i \in 1..Len(seq): seq[i] = x /\ \A j \in 1..(i - 1): seq[j] # x
    ELSE 0

LastIndexOf(seq, x) ==
    IF \E i \in 1..Len(seq): seq[i] = x
    THEN CHOOSE i \in 1..Len(seq): seq[i] = x /\ \A j \in (i + 1)..Len(seq): seq[j] # x
    ELSE 0

\* _normalise_phone (lines 42-50): the number, or ValueError.
ValueError == [ok |-> FALSE, phone |-> << >>]
NormalisePhone(raw) ==
    LET number == SelectSeq(Strip(raw), LAMBDA ch: ch \notin {" ", "-", "(", ")"})
        plussed == IF number # << >> /\ Head(number) = "+"
                   THEN number
                   ELSE << "+" >> \o number
    IN  IF number = << >> THEN ValueError
        ELSE IF ~IsDigit(Tail(plussed)) THEN ValueError
        ELSE [ok |-> TRUE, phone |-> plussed]

\* Contact(phone=..., name=...): __post_init__ strips both.
Contact(phone, name) == [phone |-> Strip(phone), name |-> Strip(name)]

\* None, as a cell of a row.
NoneCell == << "None" >>

PhoneWord == << "p", "h", "o", "n", "e" >>
NameWord == << "n", "a", "m", "e" >>

\* [c.lower().strip() for c in row]
LowerStripped(row) == [i \in 1..Len(row) |-> Strip(Lower(row[i]))]

\* What csv.DictReader puts under `key` in the dict of a row: the cell of
\* the last column of that name, or None (restval) when the row is too short
\* to have it.
DictGet(fieldnames, row, key) ==
    LET i == LastIndexOf(fieldnames, key)
    IN  IF i <= Len(row) THEN row[i] ELSE NoneCell

\* How a parser ends: the list it returns or the exception it raises.
ReturnedBy(parser, contacts) ==
    [kind |-> "return", reason |-> "", parser |-> parser, contacts |-> contacts]
RaisedBy(parser, kind, reason) ==
    [kind |-> kind, reason |-> reason, parser |-> parser, contacts |-> << >>]

\* The loop of lines 89-98 over the rows that follow the header; DictReader
\* passes over empty rows.  None has no strip(): AttributeError (lines 90, 97).
RECURSIVE HeaderLoop(_, _, _, _, _)
HeaderLoop(rows, fieldnames, phone_col, name_col, contacts) ==
    IF rows = << >> THEN [error |-> FALSE, contacts |-> contacts]
    ELSE
      LET row == Head(rows)
          rest == Tail(rows)
          raw == DictGet(fieldnames, row, phone_col)
          named == IF name_col # NoneCell THEN DictGet(fieldnames, row, name_col) ELSE << >>
      IN  IF row = << >>
          THEN HeaderLoop(rest, fieldnames, phone_col, name_col, contacts)
          ELSE IF raw = NoneCell
          THEN [error |-> TRUE, contacts |-> contacts]
          ELSE IF ~NormalisePhone(Strip(raw)).ok
          THEN HeaderLoop(rest, fieldnames, phone_col, name_col, contacts)
          ELSE IF named = NoneCell
          THEN [error |-> TRUE, contacts |-> contacts]
          ELSE HeaderLoop(rest, fieldnames, phone_col, name_col,
                          Append(contacts,
                                 Contact(NormalisePhone(Strip(raw)).phone, Strip(named))))

\* The loop of lines 101-112 over all rows when there is no header.
RECURSIVE PlainLoop(_, _)
PlainLoop(rows, contacts) ==
    IF rows = << >> THEN contacts
    ELSE
      LET row == Head(rows)
          rest == Tail(rows)
      IN  IF row = << >> THEN PlainLoop(rest, contacts)
          ELSE IF ~NormalisePhone(row[1]).ok THEN PlainLoop(rest, contacts)
          ELSE PlainLoop(rest,
                         Append(contacts,
                                Contact(NormalisePhone(row[1]).phone,
                                        IF Len(row) > 1 THEN Strip(row[2]) ELSE << >>)))

\* parse_contacts_csv (lines 69-121) on the rows that csv.reader yields.
ParseContactsCsv(rows) ==
    LET first_row == IF rows = << >> THEN << >> ELSE Head(rows)
        first_row_lower == LowerStripped(first_row)
        has_header == \E i \in 1..Len(first_row): first_row_lower[i] = PhoneWord
        phone_col == first_row[IndexOf(first_row_lower, PhoneWord)]
        name_col == IF IndexOf(first_row_lower, NameWord) # 0
                    THEN first_row[IndexOf(first_row_lower, NameWord)]
                    ELSE NoneCell
        looped == IF has_header
                  THEN HeaderLoop(Tail(rows), first_row, phone_col, name_col, << >>)
                  ELSE [error |-> FALSE, contacts |-> PlainLoop(rows, << >>)]
    IN  IF looped.error THEN RaisedBy("csv", "AttributeError", "")
        ELSE IF looped.contacts = << >>
        THEN RaisedBy("csv", "ContactParseError", "No valid contacts found in CSV file")
        ELSE ReturnedBy("csv", looped.contacts)

\* The rows that sheet.iter_rows(values_only=True) yields for a table: all
\* of one width, None where a cell is empty or missing.
Width(table) ==
    IF table = << >> THEN 0
    ELSE CHOOSE w \in {Len(table[i]) : i \in 1..Len(table)}:
             \A i \in 1..Len(table): Len(table[i]) <= w

SheetRows(table) ==
    [i \in 1..Len(table) |->
        [j \in 1..Width(table) |->
            IF j <= Len(table[i]) /\ table[i][j] # << >> THEN table[i][j] ELSE NoneCell]]

\* The loop of lines 167-181.
RECURSIVE SheetLoop(_, _, _, _)
SheetLoop(rows, phone_idx, name_idx, contacts) ==
    IF rows = << >> THEN contacts
    ELSE
      LET row == Head(rows)
          rest == Tail(rows)
          name == IF name_idx # 0 /\ Len(row) >= name_idx /\ row[name_idx] # NoneCell
                  THEN Strip(row[name_idx])
                  ELSE << >>
      IN  IF row = << >> \/ row[phone_idx] = NoneCell
          THEN SheetLoop(rest, phone_idx, name_idx, contacts)
          ELSE IF ~NormalisePhone(row[phone_idx]).ok
          THEN SheetLoop(rest, phone_idx, name_idx, contacts)
          ELSE SheetLoop(rest, phone_idx, name_idx,
                         Append(contacts, Contact(NormalisePhone(row[phone_idx]).phone, name)))

\* parse_contacts_excel (lines 149-192), with openpyxl installed.
ParseContactsExcel(table) ==
    LET rows == SheetRows(table)
        first_row == IF rows = << >> THEN << >>
                     ELSE [j \in 1..Len(rows[1]) |->
                              IF rows[1][j] = NoneCell THEN << >>
                              ELSE Strip(Lower(rows[1][j]))]
        has_header == \E j \in 1..Len(first_row): first_row[j] = PhoneWord
        phone_idx == IF has_header THEN IndexOf(first_row, PhoneWord) ELSE 1
        name_idx == IF has_header THEN IndexOf(first_row, NameWord) ELSE 0
        data_rows == IF has_header THEN Tail(rows) ELSE rows
        contacts == SheetLoop(data_rows, phone_idx, name_idx, << >>)
    IN  IF rows = << >>
        THEN RaisedBy("excel", "ContactParseError", "Excel file is empty")
        ELSE IF contacts = << >>
        THEN RaisedBy("excel", "ContactParseError", "No valid contacts found in Excel file")
        ELSE ReturnedBy("excel", contacts)

\* Path(filename).suffix: in the last component of the path, from its last
\* dot on, when that dot is neither its first nor its last character.
FinalComponent(filename) ==
    SubSeq(filename, LastIndexOf(filename, "/") + 1, Len(filename))

\* A faulty variant of the suffix: a name that begins with its only dot has
\* a suffix too.
SuffixOfDotFile(filename) ==
    LET name == FinalComponent(filename)
        i == LastIndexOf(name, ".")
    IN  IF 0 < i /\ i < Len(name) THEN SubSeq(name, i, Len(name)) ELSE << >>

Suffix(filename) ==
    LET name == FinalComponent(filename)
        i == LastIndexOf(name, ".")
    IN  IF 1 < i /\ i < Len(name) THEN SubSeq(name, i, Len(name)) ELSE << >>

DotCsv == << ".", "c", "s", "v" >>
DotXlsx == << ".", "x", "l", "s", "x" >>

\* parse_contacts_file (lines 209-217).
ParseContactsFile(filename, data) ==
    LET ext == Lower(Suffix(filename))
    IN  IF ext = DotCsv THEN ParseContactsCsv(data)
        ELSE IF ext = DotXlsx THEN ParseContactsExcel(data)
        ELSE RaisedBy("none", "ContactParseError", "Unsupported file format")

\* The file names, cells, rows and tables that the model tries.
FileNames ==
    { << "a", ".", "c", "s", "v" >>,
      << "a", ".", "C", "S", "V" >>,
      << "a", ".", "C", "s", "v" >>,
      << ".", "c", "s", "v" >>,
      << "a", ".", "t", "a", "r", ".", "c", "s", "v" >>,
      << "a", ".", "c", "s", "v", "." >>,
      << "a" >>,
      << "c", "s", "v" >>,
      << "a", ".", "c", "s", "v", "x" >>,
      << "a", ".", "t", "x", "t" >>,
      << "a", ".", "c", "s", "v", ".", "t", "x", "t" >>,
      << "d", ".", "c", "s", "v", "/", "a" >>,
      << "d", "/", "a", ".", "c", "s", "v" >>,
      << "d", "/", ".", "c", "s", "v" >>,
      << "a", ".", ".", "c", "s", "v" >>,
      << "a", ".", "x", "l", "s", "x" >>,
      << "a", ".", "X", "L", "S", "X" >>,
      << "a", ".", "x", "l", "s" >>,
      << ".", "x", "l", "s", "x" >> }

PhoneCells ==
    { << "1", "2" >>, << "+", "3", "4" >>, << " ", "(", "5", ")", "-", "6", " " >>,
      << "x", "7" >>, << >>, << "+" >> }
NameCells == { << "B", "o", "b", " " >>, << "1", "2" >> }

HeaderRows ==
    { << PhoneWord >>,
      << PhoneWord, NameWord >>,
      << NameWord, << "P", "H", "O", "N", "E", " " >> >> }

DataRows ==
    {<< >>} \cup {<< p >> : p \in PhoneCells}
            \cup {<< p, n >> : p \in PhoneCells, n \in NameCells}
            \cup {<< n, p >> : n \in NameCells, p \in {<< "1", "2" >>, << "x", "7" >>}}

\* bound: the number of rows of a table after its header
MaxRows == 2

TableBodies ==
    UNION {[1..k -> DataRows] : k \in 0..MaxRows}

Tables ==
    TableBodies \cup {<< h >> \o body : h \in HeaderRows, body \in TableBodies}

\* The tables tried with every file name: those of at most two rows.
FileTables == {t \in Tables : Len(t) <= 2}

\* parse_contacts_file(filename, data) is called (bot.py line 191).
UploadFile(filename, data) ==
    /\ upload.outcome.kind = "none"
    /\ upload' = [filename |-> filename, data |-> data,
                  outcome |-> ParseContactsFile(filename, data)]
    /\ UNCHANGED << limiter, api, sessions, handlers >>

\* parse_contacts_csv(data) is called on its own.
UploadCsv(data) ==
    /\ upload.outcome.kind = "none"
    /\ upload' = [filename |-> << >>, data |-> data, outcome |-> ParseContactsCsv(data)]
    /\ UNCHANGED << limiter, api, sessions, handlers >>

\* The caller has the outcome; the next file can come.
UploadDone ==
    /\ upload.outcome.kind # "none"
    /\ upload' = NoUpload
    /\ UNCHANGED << limiter, api, sessions, handlers >>

\* A file arrives, with any of the names and tables; content arrives for the
\* CSV parser alone.
ReceiveFile ==
    /\ upload = NoUpload
    /\ \E filename \in FileNames, data \in FileTables: UploadFile(filename, data)

ReceiveCsv ==
    /\ upload = NoUpload
    /\ \E data \in Tables: UploadCsv(data)

ParserNext ==
    \/ ReceiveFile
    \/ ReceiveCsv
    \/ UploadDone

ParserSpec == LiveInit /\ [][ParserNext]_vars

\* ------------------------------------------------------------- bot.py
\* The handlers of /bulk and of uploaded documents.  The application is
\* built without concurrent_updates (line 265), so one update is handled at
\* a time: while document_handler runs, no other handler does.

\* The caller of acquire() that is the bulk loop of document_handler.
Bulker == 1

\* document.file_name or "contacts.csv"
DefaultFileName == << "c", "o", "n", "t", "a", "c", "t", "s", ".", "c", "s", "v" >>
FileNameOf(file_name) == IF file_name = << >> THEN DefaultFileName ELSE file_name

\* The uploads that the model tries: two contacts; one contact and a row
\* that is none, in a file without a name; no contact; a format that is not
\* supported; a row shorter than the header.
TwoContacts == << << << "1", "2" >> >>, << << "+", "3", "4" >>, << "B", "o", "b", " " >> >> >>
OneContact == << << << "1", "2" >> >>, << << "x", "7" >> >> >>
NoContact == << << << "x", "7" >> >> >>
ShortRow == << << PhoneWord, NameWord >>, << << "1", "2" >> >> >>

BotUploads ==
    { << << "a", ".", "C", "S", "V" >>, TwoContacts >>,
      << << >>, OneContact >>,
      << << "a", ".", "c", "s", "v" >>, NoContact >>,
      << << "a", ".", "t", "x", "t" >>, TwoContacts >>,
      << << "a", ".", "c", "s", "v" >>, ShortRow >> }

\* bulk_handler (lines 159-167).
BulkCommand(u) ==
    /\ run.stage = "idle"
    /\ awaiting' = [awaiting EXCEPT ![u] = TRUE]
    /\ UNCHANGED << limiter, api, upload, sessions, run >>

\* How far document_handler gets before its loop (lines 180-201), once it
\* has accepted the upload: the download may fail, the parser may raise
\* ContactParseError, which is caught, or something else, which is not, and
\* the template may not be configured.
Prelude(file_name, data, downloaded, template_id) ==
    LET parsed == ParseContactsFile(FileNameOf(file_name), data)
    IN  IF ~downloaded THEN [stage |-> "download_failed", contacts |-> << >>]
        ELSE IF parsed.kind = "ContactParseError"
        THEN [stage |-> "parse_error", contacts |-> << >>]
        ELSE IF parsed.kind # "return" THEN [stage |-> "raised", contacts |-> << >>]
        ELSE IF ~template_id THEN [stage |-> "no_template", contacts |-> << >>]
        ELSE [stage |-> "loop", contacts |-> parsed.contacts]

\* A faulty variant of document_handler: the flag is left as it is.
DocumentKeepsFlag(u, file_name, data, downloaded, template_id) ==
    /\ run.stage = "idle"
    /\ IF ~awaiting[u]
       THEN run' = [NoRun EXCEPT !.user = u, !.stage = "rejected"]
       ELSE run' = [NoRun EXCEPT !.user = u,
                                 !.stage = Prelude(file_name, data, downloaded, template_id).stage,
                                 !.contacts = Prelude(file_name, data, downloaded, template_id).contacts,
                                 !.index = 1]
    /\ sessions' = NoSessions
    /\ UNCHANGED << limiter, api, upload, awaiting >>

\* document_handler, lines 172-211: without the flag the upload is turned
\* away; with it, the flag is cleared, the file is downloaded and parsed, and
\* with contacts and a template the loop is set up with a fresh client.
Document(u, file_name, data, downloaded, template_id) ==
    /\ run.stage = "idle"
    /\ IF ~awaiting[u]
       THEN /\ run' = [NoRun EXCEPT !.user = u, !.stage = "rejected"]
            /\ UNCHANGED awaiting
       ELSE /\ awaiting' = [awaiting EXCEPT ![u] = FALSE]
            /\ run' = [NoRun EXCEPT !.user = u,
                                    !.stage = Prelude(file_name, data, downloaded, template_id).stage,
                                    !.contacts = Prelude(file_name, data, downloaded, template_id).contacts,
                                    !.index = 1]
    /\ sessions' = NoSessions
    /\ UNCHANGED << limiter, api, upload >>

\* The loop is at a contact: line 220, `await rate_limiter.acquire()`, as
\* Call(Bulker), with a note of the contact it is called for.
BulkAcquire ==
    /\ run.stage = "loop"
    /\ run.index <= Len(run.contacts)
    /\ pc[Bulker] = "idle"
    /\ started' = Min(started + 1, StartedCap)
    /\ order' = Append(Without(order, Bulker), Bulker)
    /\ notBefore' = [notBefore EXCEPT ![Bulker] = EarliestReturn]
    /\ IF lock = NoOne THEN Iterate(Bulker) ELSE Blocked(Bulker, "lock")
    /\ run' = [run EXCEPT !.acquired = Append(@, run.index)]
    /\ UNCHANGED << config, api, upload, sessions, awaiting >>

\* The loop's acquire() goes on after a suspension.
BulkWake ==
    /\ run.stage = "loop"
    /\ Wake(Bulker)

\* What the end of an iteration leaves of the caller of acquire().
BackToIdle ==
    /\ pc' = [pc EXCEPT ![Bulker] = "idle"]
    /\ order' = Without(order, Bulker)
    /\ granted' = [granted EXCEPT ![Bulker] = FALSE]
    /\ UNCHANGED << config, windows, lock, wakeAt, grants, started, surplus, notBefore,
                    balance >>

\* A faulty variant of the send of the loop: only a BirdAPIError is counted
\* as a failure.
BulkSendCountsApiErrors(status, body) ==
    /\ run.stage = "loop"
    /\ pc[Bulker] = "done"
    /\ sessions' = GetSession(sessions)
    /\ run' = [run EXCEPT !.attempted = Append(@, run.index),
                          !.success_count =
                              IF SendOutcome(status, body).kind = "return" THEN @ + 1 ELSE @,
                          !.failure_count =
                              IF SendOutcome(status, body).kind = "BirdAPIError" THEN @ + 1 ELSE @,
                          !.index = @ + 1]
    /\ BackToIdle
    /\ UNCHANGED << api, upload, awaiting >>

\* Lines 221-233 after acquire() has returned: the send, with the answer
\* of the server (status, body); it counts as a success when it returns and
\* as a failure when it raises BirdAPIError or any other Exception.
BulkSend(status, body) ==
    /\ run.stage = "loop"
    /\ pc[Bulker] = "done"
    /\ sessions' = GetSession(sessions)
    /\ run' = [run EXCEPT !.attempted = Append(@, run.index),
                          !.success_count =
                              IF SendOutcome(status, body).kind = "return" THEN @ + 1 ELSE @,
                          !.failure_count =
                              IF SendOutcome(status, body).kind # "return" THEN @ + 1 ELSE @,
                          !.index = @ + 1]
    /\ BackToIdle
    /\ UNCHANGED << api, upload, awaiting >>

\* Lines 231-233 when acquire() has raised (IndexError): a failure, and no
\* send for this contact.
BulkRaised ==
    /\ run.stage = "loop"
    /\ pc[Bulker] = "raised"
    /\ run' = [run EXCEPT !.failure_count = @ + 1, !.index = @ + 1]
    /\ BackToIdle
    /\ UNCHANGED << api, upload, sessions, awaiting >>

\* The task of the handler is cancelled while the loop sleeps in acquire():
\* CancelledError is no Exception, so neither `except` catches it; it leaves
\* the loop and the handler, and line 235 is not reached.
BulkCancelled ==
    /\ run.stage = "loop"
    /\ pc[Bulker] = "sleep"
    /\ lock = NoOne
    /\ run' = [run EXCEPT !.stage = "cancelled"]
    /\ pc' = [pc EXCEPT ![Bulker] = "idle"]
    /\ order' = Without(order, Bulker)
    /\ granted' = [granted EXCEPT ![Bulker] = FALSE]
    /\ balance' = [balance EXCEPT ![Bulker] = @ + 1 - 1]
    /\ UNCHANGED << config, windows, lock, wakeAt, grants, started, surplus, notBefore,
                    api, upload, sessions, awaiting >>

\* Lines 235-240: the contacts are exhausted; the client is closed and the
\* counts are reported.
BulkFinish ==
    /\ run.stage = "loop"
    /\ run.index > Len(run.contacts)
    /\ pc[Bulker] = "idle"
    /\ sessions' = CloseSession(sessions)
    /\ run' = [run EXCEPT !.stage = "finished"]
    /\ UNCHANGED << limiter, api, upload, awaiting >>

\* document_handler is over; the next update can be handled.
HandlerDone ==
    /\ run.stage \notin {"idle", "loop"}
    /\ run' = NoRun
    /\ sessions' = NoSessions
    /\ UNCHANGED << limiter, api, upload, awaiting >>

BotNext ==
    \/ \E u \in Users: BulkCommand(u)
    \/ \E u \in Users, f \in BotUploads, downloaded \in BOOLEAN, template_id \in BOOLEAN:
           Document(u, f[1], f[2], downloaded, template_id)
    \/ BulkAcquire
    \/ BulkWake
    \/ \E status \in Statuses, body \in Bodies: BulkSend(status, body)
    \/ BulkRaised
    \/ BulkCancelled
    \/ BulkFinish
    \/ HandlerDone
    \/ Tick

\* The limiters with one grant per second and per minute, and with a
\* negative limit per second.
BotInit == \E a \in {Given(1), Given(-1)}: InitWith(a, Given(1), Absent, Absent)

BotSpec == BotInit /\ [][BotNext]_vars

\* ------------------------------------------------------------- claims
Positive == messages_per_second > 0 /\ messages_per_minute > 0

\* The number of logged grants whose timestamp lies in (now - h, now].
InTrailing(h) == Cardinality({i \in 1..Len(grants) : grants[i] > now - h})

\* The trimmed windows are both below their caps.
BelowCaps ==
    /\ Len(CleanSecond(now)) < messages_per_second
    /\ Len(CleanMinute(now)) < messages_per_minute

\* Caller c takes a step of acquire(): it invokes it or is resumed in it.
AcquireStep(c) ==
    /\ pc[c] \in {"idle", "sleep", "lock", "relock"}
    /\ pc'[c] # pc[c] \/ wakeAt'[c] > wakeAt[c]

\* Caller c is admitted in this step.
Admission(c) == ~granted[c] /\ granted'[c]

\* C1: with positive limits, at every instant the grants timestamped in the
\* trailing second are at most messages_per_second and those in the trailing
\* minute at most messages_per_minute; the grant that comes
\* messages_per_second places after another is at least one second later.
C1_Capacity ==
    Positive =>
        /\ InTrailing(SecondHorizon) <= messages_per_second
        /\ InTrailing(MinuteHorizon) <= messages_per_minute
        /\ \A i \in 1..Len(grants):
              i + messages_per_second <= Len(grants)
                  => grants[i + messages_per_second] - grants[i] >= SecondHorizon

\* Both windows are at capacity, the second window by a grant younger than
\* the oldest grant of the minute, and a caller waits.
C1_Witness ==
    /\ Positive
    /\ messages_per_second < messages_per_minute
    /\ InTrailing(SecondHorizon) = messages_per_second
    /\ InTrailing(MinuteHorizon) = messages_per_minute
    /\ \E c \in Callers: pc[c] = "sleep" /\ wakeAt[c] > now

\* C2: in every reachable state each window holds at most as many entries
\* as its cap.
C2_WindowsWithinCaps ==
    /\ Len(second_window) <= messages_per_second
    /\ Len(minute_window) <= messages_per_minute

\* C3: a step in which acquire() returns appends the same timestamp once to
\* each trimmed window; a step that ends in a wait appends nothing; the
\* timestamps appended to each window are as many as the returns of acquire().
C3_GrantAccounting ==
    [][ /\ \A c \in Callers:
              /\ (AcquireStep(c) /\ pc'[c] = "done")
                    => /\ second_window' = Append(CleanSecond(now), now)
                       /\ minute_window' = Append(CleanMinute(now), now)
              /\ (AcquireStep(c) /\ pc'[c] = "sleep")
                    => /\ second_window' = CleanSecond(now)
                       /\ minute_window' = CleanMinute(now)
        /\ surplus' = [s |-> 0, m |-> 0] ]_vars

\* A caller has returned from acquire() after at least one wait of another
\* caller's, with its timestamp at the tail of both windows.
C3_Witness ==
    \E c, d \in Callers:
        /\ pc[c] = "done" /\ pc[d] = "sleep"
        /\ second_window # << >> /\ second_window[Len(second_window)] = now
        /\ minute_window # << >> /\ minute_window[Len(minute_window)] = now
        /\ Len(minute_window) = 2

\* C4: with positive limits every caller that has invoked acquire() and waits
\* is eventually admitted.
C4_EventuallyAdmitted ==
    \A c \in Callers: (Positive /\ pc[c] = "sleep") ~> (pc[c] = "done")

\* C5: while a caller is asleep in acquire() the lock is free: neither the
\* sleeper nor anyone else holds it, so another caller's step runs its check.
C5_SleepsWithoutLock == \A c \in Callers: pc[c] = "sleep" => lock = NoOne

\* Two callers are asleep before their wake-up times: the one that slept
\* second ran its check and computed its wait while the first was asleep.
C5_Witness ==
    \E a, b \in Callers:
        /\ a # b
        /\ pc[a] = "sleep" /\ wakeAt[a] > now
        /\ pc[b] = "sleep" /\ wakeAt[b] > now
        /\ lock = NoOne

\* C6: a step of acquire() that finds both trimmed windows below their caps
\* records the grant and returns, whatever the other callers are doing; no
\* caller sleeps before more calls have begun than the smaller limit.
C6_NonBlockingBelowCapacity ==
    /\ [][ \A c \in Callers:
              (AcquireStep(c) /\ BelowCaps)
                  => /\ pc'[c] = "done"
                     /\ second_window' = Append(CleanSecond(now), now)
                     /\ minute_window' = Append(CleanMinute(now), now) ]_vars
    /\ [](\A c \in Callers:
              pc[c] = "sleep" => started > Min(messages_per_second, messages_per_minute))

\* A caller is admitted at once while another caller is asleep.
C6_Witness ==
    \E c, d \in Callers:
        /\ pc[c] = "done" /\ notBefore[c] = now /\ grants # << >>
        /\ grants[Len(grants)] = now
        /\ pc[d] = "sleep" /\ wakeAt[d] > now
        /\ order = << d, c >>

\* C7: an acquire() invoked when messages_per_second grants lay in the
\* trailing second has not returned before one second after the oldest of
\* them.
C7_BlockingAtCapacity == \A c \in Callers: pc[c] = "done" => notBefore[c] <= now

\* A caller has returned exactly one second after the grant that lies
\* messages_per_second places before its own.
C7_Witness ==
    \E c \in Callers:
        /\ pc[c] = "done" /\ order = << c >>
        /\ messages_per_second > 0
        /\ Len(grants) > messages_per_second
        /\ grants[Len(grants)] = now
        /\ grants[Len(grants) - messages_per_second] = now - SecondHorizon

\* C8: no limiter exists whose limit is not positive or differs from the
\* argument given for it.
C8_RejectsNonPositive ==
    /\ Positive
    /\ given[1] # Absent => messages_per_second = given[1][1]
    /\ given[2] # Absent => messages_per_minute = given[2][1]

\* C9: with positive limits acquire() never raises, and a window judged full
\* has a head.
C9_NeverRaises ==
    Positive =>
        /\ \A c \in Callers: pc[c] # "raised"
        /\ ~HeadMissing(CleanSecond(now), CleanMinute(now))

\* A caller has computed its wait from the head of the second window alone.
C9_Witness ==
    /\ Positive
    /\ \E c \in Callers: pc[c] = "sleep" /\ wakeAt[c] > now
    /\ ~PerSecondOk(CleanSecond(now))
    /\ PerMinuteOk(CleanMinute(now))

\* C10: a caller is admitted only when every caller that invoked acquire()
\* before it has been admitted.
C10_FirstComeFirstServed ==
    [][ \A b \in Callers: Admission(b) => \A a \in Earlier(order', b): granted'[a] ]_vars

\* C10 as amended: a caller is admitted ahead of one that invoked acquire()
\* before it only while that one is suspended inside acquire().
C10_OvertakenOnlyWhileSuspended ==
    [][ \A b \in Callers:
            Admission(b) => \A a \in Earlier(order', b):
                                granted'[a] \/ pc'[a] \in {"sleep", "lock", "relock"} ]_vars

\* A caller has its grant while one that invoked acquire() before it sleeps.
C10_Witness ==
    \E a, b \in Callers:
        /\ order = << a, b >>
        /\ granted[b] /\ pc[b] = "done"
        /\ pc[a] = "sleep"

\* C11: every access to the windows is made by a holder of the lock, also
\* by the two count properties: a count query trims and reads the windows
\* only while the querying task holds the lock.
C11_WindowsAccessedUnderLock ==
    [][CurrentCount => Guarded(Query, lock)]_vars

\* C12: current_second_count returns the number of grants recorded in the
\* trailing second and current_minute_count the number recorded in the
\* trailing minute; both are 0 on a fresh limiter.
C12_CountsAreTrailingGrants ==
    /\ CurrentSecondCount = InTrailing(SecondHorizon)
    /\ CurrentMinuteCount = InTrailing(MinuteHorizon)
    /\ started = 0 => CurrentSecondCount = 0 /\ CurrentMinuteCount = 0

\* Two grants, one of them older than a second: the counts differ, and the
\* second window still holds the expired entry that the query leaves out.
C12_Witness ==
    /\ CurrentSecondCount = 1
    /\ CurrentMinuteCount = 2
    /\ Len(second_window) = 2

\* The entries of a window that are younger than the horizon.
Unexpired(window, horizon) == SelectSeq(window, LAMBDA t: t > horizon)

\* C13: a count query appends nothing, leaves the limits and the lock as
\* they are, removes from the windows only the entries that are expired at
\* the time of the call, and leaves what acquire() will find after its own
\* trim, and so its decision, as it was.
C13_QueriesOnlyTrim ==
    [][CurrentCount =>
        /\ second_window' = Unexpired(second_window, now - SecondHorizon)
        /\ minute_window' = Unexpired(minute_window, now - MinuteHorizon)
        /\ UNCHANGED << config, lock, pc, wakeAt >>
        /\ CleanSecond(now)' = CleanSecond(now)
        /\ CleanMinute(now)' = CleanMinute(now)
        /\ BelowCaps' = BelowCaps]_vars

\* The only acquire() begun so far recorded its grant, and a query has since
\* removed the expired entry from the second window.
C13_Witness ==
    /\ started = 1
    /\ second_window = << >>
    /\ Len(minute_window) = 1

\* C14: a sender issues its outbound call only once its own acquire() has
\* returned with its grant recorded, and at most one call per grant.
C14_SendsFollowGrants ==
    /\ [][\A c \in Callers:
            (pc'[c] = "sent" /\ pc[c] # "sent") => (pc[c] = "done" /\ granted[c])]_vars
    /\ [](\A c \in Callers: pc[c] = "sent" => granted[c])

\* One sender has issued its call while the other is still asleep in
\* acquire().
C14_Witness ==
    \E c, d \in Callers:
        /\ pc[c] = "sent"
        /\ pc[d] = "sleep" /\ wakeAt[d] > now

\* C18: every timestamp in the second window is also in the minute window.
C18_SecondWithinMinute ==
    \A i \in 1..Len(second_window):
        \E j \in 1..Len(minute_window): minute_window[j] = second_window[i]

\* The minute window holds a grant that the second window no longer holds,
\* next to one that both hold.
C18_Witness ==
    /\ Len(second_window) = 1
    /\ Len(minute_window) = 2
    /\ minute_window[1] < second_window[1]

\* C19 as stated: trimming the second window at `now` keeps exactly the
\* entries stamped at or after now - 1s, the entry stamped exactly at
\* now - 1s included.
C19_KeepsEntryAtHorizon ==
    CleanSecond(now) = SelectSeq(second_window, LAMBDA t: t >= now - SecondHorizon)

\* C19, amended: trimming at `now` removes exactly the entries stamped at or
\* before the horizon (now - 1s, now - 60s) and keeps exactly those stamped
\* after it.
C19_TrimsUpToHorizon ==
    /\ CleanSecond(now) = Unexpired(second_window, now - SecondHorizon)
    /\ CleanMinute(now) = Unexpired(minute_window, now - MinuteHorizon)

\* The second window holds an entry stamped exactly one second ago and a
\* younger one: the trim removes the first and keeps the second.
C19_Witness ==
    /\ Len(second_window) = 2
    /\ second_window[1] = now - SecondHorizon
    /\ CleanSecond(now) = << second_window[2] >>

\* C20: a caller resumed from its sleep is admitted only if the trimmed
\* windows are below their caps at that moment; otherwise it records no
\* grant and sleeps again, for the wait computed from the windows as they
\* are then, which ends in the future.
C20_RecheckAfterWaking ==
    [][\A c \in Callers:
        (pc[c] = "sleep" /\ AcquireStep(c)) =>
            IF BelowCaps
            THEN pc'[c] = "done" /\ granted'[c]
            ELSE /\ pc'[c] = "sleep"
                 /\ ~granted'[c]
                 /\ grants' = grants
                 /\ Len(second_window') <= Len(second_window)
                 /\ Len(minute_window') <= Len(minute_window)
                 /\ wakeAt'[c] = now + Wait(CleanSecond(now), CleanMinute(now), now)
                 /\ wakeAt'[c] > now]_vars

\* Caller c invoked acquire() first and slept; d was admitted when the slot
\* came free, and c, resumed after that, is asleep again until a later time.
C20_Witness ==
    \E c, d \in Callers:
        /\ order = << c, d >>
        /\ pc[d] \in {"done", "sent"} /\ granted[d]
        /\ pc[c] = "sleep" /\ wakeAt[c] > now

\* C15: a call of send_template_message or get_message_status returns the
\* parsed body when the status is below 400 and raises BirdAPIError with
\* that status and the body's message when it is 400 or above.
C15_StatusDecidesOutcome ==
    api.call # "none" =>
        IF api.status < ErrorStatus
        THEN api.outcome = Returned(api.body)
        ELSE api.outcome = BirdAPIError(api.status, MessageOf(api.body))

\* The table has a header row: one of the cells of its first row is "phone",
\* whatever the case and the blanks around it.
HasHeader(table) ==
    table # << >> /\ \E i \in 1..Len(table[1]): Strip(Lower(table[1][i])) = PhoneWord

\* The phone of each row of data, in the order of the rows: the cell of the
\* phone column (empty when the row has no such cell), or the first cell when
\* there is no header.  Blank rows are no rows of data.
PhoneOf(table, row) ==
    LET col == IF HasHeader(table) THEN IndexOf(LowerStripped(table[1]), PhoneWord) ELSE 1
    IN  IF col <= Len(row) THEN row[col] ELSE << >>

RowsOfData(table) ==
    SelectSeq(IF HasHeader(table) THEN Tail(table) ELSE table, LAMBDA row: row # << >>)

ValidPhones(table) ==
    LET valid == SelectSeq(RowsOfData(table),
                           LAMBDA row: NormalisePhone(PhoneOf(table, row)).ok)
    IN  [i \in 1..Len(valid) |-> NormalisePhone(PhoneOf(table, valid[i])).phone]

\* C16: parse_contacts_csv skips every row whose phone cannot be normalised
\* and returns a contact for every other row, in the order of the rows, with
\* its phone as "+" followed by digits; when no row is valid it raises
\* ContactParseError, and it never returns an empty list.
C16_KeepsValidRowsInOrder ==
    upload.outcome.parser = "csv" =>
        LET out == upload.outcome
            phones == ValidPhones(upload.data)
        IN  IF phones = << >>
            THEN out.kind = "ContactParseError"
            ELSE /\ out.kind = "return"
                 /\ [i \in 1..Len(out.contacts) |-> out.contacts[i].phone] = phones
                 /\ \A i \in 1..Len(phones):
                        Head(phones[i]) = "+" /\ IsDigit(Tail(phones[i]))

\* The last component of the file name ends with ext, whatever the case of
\* its letters, and has something before it.
HasExtension(filename, ext) ==
    LET name == FinalComponent(filename)
        n == Len(name)
        k == Len(ext)
    IN  n > k /\ Lower(SubSeq(name, n - k + 1, n)) = ext

\* C17: parse_contacts_file gives the data to the CSV parser when the file
\* name has the extension .csv, to the Excel parser when it has .xlsx, in
\* any case of the letters, and otherwise raises ContactParseError
\* "Unsupported file format" with no parser called.
C17_DispatchOnExtension ==
    upload.filename # << >> =>
        IF HasExtension(upload.filename, DotCsv)
        THEN upload.outcome = ParseContactsCsv(upload.data)
        ELSE IF HasExtension(upload.filename, DotXlsx)
        THEN upload.outcome = ParseContactsExcel(upload.data)
        ELSE upload.outcome = RaisedBy("none", "ContactParseError", "Unsupported file format")

\* "a.CSV" went to the CSV parser, which returned contacts.
C17_Witness ==
    /\ upload.filename = << "a", ".", "C", "S", "V" >>
    /\ upload.outcome.parser = "csv"
    /\ upload.outcome.kind = "return"

\* The windows as a check at time t would find them after its trim are both
\* below their caps.
FreeAt(t) ==
    /\ PerSecondOk(PopExpired(second_window, t - SecondHorizon))
    /\ PerMinuteOk(PopExpired(minute_window, t - MinuteHorizon))

\* Some caller is admitted in this step.
SomeAdmission == \E d \in Callers: Admission(d)

\* C21: the wait that a step of acquire() computes is strictly positive, at
\* most 60 s, and at most 1 s when only the second window is full; a check
\* at the end of the wait finds both windows below their caps, and that
\* stays so for as long as the caller sleeps and nobody is admitted; a caller
\* resumed in that situation is admitted, so it sleeps once.
C21_WaitSuffices ==
    [][\A c \in Callers:
        /\ (AcquireStep(c) /\ pc'[c] = "sleep") =>
              /\ wakeAt'[c] - now > 0
              /\ wakeAt'[c] - now <= MinuteHorizon
              /\ PerMinuteOk(CleanMinute(now)) => wakeAt'[c] - now <= SecondHorizon
              /\ FreeAt(wakeAt[c])'
        /\ (pc[c] = "sleep" /\ ~AcquireStep(c) /\ ~SomeAdmission /\ FreeAt(wakeAt[c]))
              => (pc'[c] = "sleep" /\ FreeAt(wakeAt[c])')
        /\ (pc[c] = "sleep" /\ AcquireStep(c) /\ FreeAt(wakeAt[c]))
              => (pc'[c] = "done" /\ granted'[c])]_vars

\* A sleeper is due exactly when the grant that filled the second window
\* reaches the age of one second; the minute window was not full, and the
\* check that follows will find a free slot.
C21_Witness ==
    \E c \in Callers:
        /\ pc[c] = "sleep" /\ wakeAt[c] = now
        /\ Len(second_window) = messages_per_second
        /\ second_window[1] = now - SecondHorizon
        /\ Len(minute_window) < messages_per_minute
        /\ FreeAt(now)

\* C22: the wait computed by a step of acquire() is the oldest entry of the
\* second window + 1 s - now when only the second window is full, the oldest
\* entry of the minute window + 60 s - now when only the minute window is
\* full, and the larger of the two when both are full.
C22_WaitFormula ==
    [][\A c \in Callers:
        (AcquireStep(c) /\ pc'[c] = "sleep") =>
            LET sw == CleanSecond(now)
                mw == CleanMinute(now)
                secondFull == Len(sw) >= messages_per_second
                minuteFull == Len(mw) >= messages_per_minute
                wait == wakeAt'[c] - now
            IN  /\ secondFull \/ minuteFull
                /\ (secondFull /\ ~minuteFull) => wait = sw[1] + SecondHorizon - now
                /\ (minuteFull /\ ~secondFull) => wait = mw[1] + MinuteHorizon - now
                /\ (secondFull /\ minuteFull)
                      => wait = Max(sw[1] + SecondHorizon - now,
                                    mw[1] + MinuteHorizon - now)]_vars

\* A caller sleeps with both windows full, for the wait of the minute window,
\* which is the larger one.
C22_Witness ==
    \E c \in Callers:
        /\ pc[c] = "sleep"
        /\ Len(CleanSecond(now)) = messages_per_second
        /\ Len(CleanMinute(now)) = messages_per_minute
        /\ wakeAt[c] = CleanMinute(now)[1] + MinuteHorizon
        /\ wakeAt[c] > CleanSecond(now)[1] + SecondHorizon

\* The timestamps of a window do not decrease from head to tail.
NonDecreasing(window) ==
    \A i \in 1..(Len(window) - 1): window[i] <= window[i + 1]

\* C23: in every reachable state the timestamps of the second window and
\* those of the minute window are non-decreasing from head to tail.
C23_WindowsNonDecreasing ==
    /\ NonDecreasing(second_window)
    /\ NonDecreasing(minute_window)

\* Two callers have been admitted at different times, and the windows hold
\* the two timestamps, the older at the head.
C23_Witness ==
    \E c, d \in Callers:
        /\ order = << c, d >>
        /\ granted[c] /\ granted[d]
        /\ Len(second_window) = 2
        /\ second_window[1] < second_window[2]
        /\ minute_window = second_window

\* v is w without some of its first entries.
HeadRemoved(w, v) == \E k \in 0..Len(w): v = SubSeq(w, k + 1, Len(w))

\* v is w without some of its first entries and with one entry more at its
\* tail, the timestamp t.
TailAppended(w, v, t) ==
    /\ v # << >>
    /\ v[Len(v)] = t
    /\ HeadRemoved(w, SubSeq(v, 1, Len(v) - 1))

\* seq is a run of consecutive entries of log.
Contiguous(seq, log) ==
    \E i \in 1..(Len(log) + 1): \E j \in (i - 1)..Len(log): seq = SubSeq(log, i, j)

\* C24: every step of acquire() and of the count queries changes a window
\* only by removing entries from its head or by that and appending one entry,
\* the current timestamp, at its tail (the passing of time changes no
\* window: it only re-expresses the timestamps relative to the new reading
\* of the clock); the entries of each window that are younger than a minute
\* are a run of consecutive grants, in the order of the grants.
C24_HeadRemovalTailAppend ==
    /\ [][\/ Tick
          \/ /\ HeadRemoved(second_window, second_window')
                    \/ TailAppended(second_window, second_window', now)
             /\ HeadRemoved(minute_window, minute_window')
                    \/ TailAppended(minute_window, minute_window', now)]_vars
    /\ [](/\ Contiguous(Unexpired(second_window, now - MinuteHorizon), grants)
          /\ Contiguous(Unexpired(minute_window, now - MinuteHorizon), grants))

\* The second window has lost its head and gained a tail: it holds the
\* second of two grants, the minute window both.
C24_Witness ==
    /\ Len(grants) = 2
    /\ grants[1] < grants[2]
    /\ second_window = SubSeq(grants, 2, 2)
    /\ minute_window = grants

\* C25: trimming a trimmed window again at the same time changes nothing,
\* and a count query leaves the windows such that a second query at the
\* same time changes neither the windows nor the counts returned.
C25_TrimIdempotent ==
    /\ [](/\ PopExpired(CleanSecond(now), now - SecondHorizon) = CleanSecond(now)
          /\ PopExpired(CleanMinute(now), now - MinuteHorizon) = CleanMinute(now))
    /\ [][CurrentCount =>
            /\ CleanSecond(now)' = second_window'
            /\ CleanMinute(now)' = minute_window'
            /\ CurrentSecondCount' = CurrentSecondCount
            /\ CurrentMinuteCount' = CurrentMinuteCount
            /\ CurrentSecondCount' = Len(second_window')
            /\ CurrentMinuteCount' = Len(minute_window')]_vars

\* Two calls of acquire() were admitted, and a count query has since emptied
\* the second window and left the minute window with its two entries.
C25_Witness ==
    /\ started = 2
    /\ second_window = << >>
    /\ Len(minute_window) = 2
    /\ CurrentMinuteCount = 2

\* Caller c leaves acquire() in this step, by return or by an exception.
Exit(c) ==
    /\ pc[c] \in {"idle", "sleep", "lock", "relock", "unwind"}
    /\ pc'[c] \in {"done", "raised", "cancelled"}

\* C26: a caller that is not inside a step of acquire() has released the
\* lock as often as it has taken it, on every exit from acquire(), by return
\* or by cancellation during the sleep, and during the sleep; the lock is
\* held by nobody at those times, so no release ever frees a lock that
\* another caller holds and no caller ever waits for the lock; a caller
\* cancelled while it sleeps records no grant.
C26_GuardBalanced ==
    /\ [](/\ \A c \in Callers: balance[c] = 0
          /\ lock = NoOne
          /\ \A c \in Callers: pc[c] \notin {"lock", "relock", "unwind"}
          /\ \A c \in Callers: pc[c] = "cancelled" => ~granted[c])
    /\ [][\A c \in Callers:
            /\ Exit(c) => (balance'[c] = 0 /\ lock' = NoOne)
            /\ (pc[c] = "sleep" /\ pc'[c] = "cancelled")
                  => /\ UNCHANGED << windows, grants, surplus >>
                     /\ ~granted'[c]]_vars

\* A caller has been cancelled in its sleep while the other one is asleep;
\* the windows hold the grant that both waited for and no other.
C26_Witness ==
    \E c, d \in Callers:
        /\ pc[c] = "cancelled" /\ pc[d] = "sleep" /\ wakeAt[d] > now
        /\ balance[c] = 0 /\ lock = NoOne
        /\ Len(minute_window) = 1 /\ Len(grants) = 1

\* The sessions of the client that are open.
OpenSessions == {i \in 1..Len(sessions) : sessions[i] = "open"}

\* A call of send_template_message or get_message_status begins in this step.
CallStep == api.call = "none" /\ api'.call # "none"

\* C29: the client has at most one open session, the latest it created; a
\* call uses the open session when there is one and creates a session only
\* when there is none or the latest is closed; after close() no session is
\* open, and close() without an open session changes nothing.
C29_SessionLifecycle ==
    /\ [](/\ Cardinality(OpenSessions) <= 1
          /\ OpenSessions \subseteq {Len(sessions)})
    /\ [][/\ CallStep =>
                /\ CurrentSession(sessions') = "open"
                /\ IF CurrentSession(sessions) = "open"
                   THEN sessions' = sessions
                   ELSE sessions' = Append(sessions, "open")
          /\ Close =>
                /\ OpenSessions' = {}
                /\ CurrentSession(sessions) = "open"
                      => sessions' = [sessions EXCEPT ![Len(sessions)] = "closed"]
                /\ CurrentSession(sessions) # "open" => UNCHANGED vars]_vars

\* The client is in a call with its second session, created because the
\* first had been closed.
C29_Witness ==
    /\ sessions = << "closed", "open" >>
    /\ api.call = "send_template_message"

\* document_handler takes up an upload in this step.
DocumentStep == run.stage = "idle" /\ run'.stage # "idle"

\* C27: document_handler goes beyond its first check only for a user whose
\* flag is set, and the flag is set by /bulk alone; it clears the flag before
\* anything else, so the flag is clear for as long as the handler runs and
\* after it, however the handling ends, and an upload that finds the flag
\* clear is turned away with nothing changed.
C27_BulkUploadOneShot ==
    /\ [][/\ DocumentStep =>
                /\ run'.stage # "rejected" => (awaiting[run'.user] /\ ~awaiting'[run'.user])
                /\ ~awaiting[run'.user] => (run'.stage = "rejected" /\ UNCHANGED awaiting)
                /\ \A v \in Users \ {run'.user}: awaiting'[v] = awaiting[v]
          /\ \A u \in Users: (~awaiting[u] /\ awaiting'[u]) => BulkCommand(u)
          /\ \A u \in Users:
                (awaiting[u] /\ ~awaiting'[u])
                    => (DocumentStep /\ run'.user = u /\ run'.stage # "rejected")]_vars
    /\ [](run.stage \notin {"idle", "rejected"} => ~awaiting[run.user])

\* An upload is turned away: an earlier upload went as far as sending and
\* used up the flag, and no /bulk has followed.
C27_Witness ==
    /\ run.stage = "rejected"
    /\ grants # << >>
    /\ \A u \in Users: ~awaiting[u]

\* The indices 1, ..., k in order.
UpTo(k) == [i \in 1..k |-> i]

\* C28: the loop calls acquire() once for each contact, in the order of the
\* list, and sends at most once for each, also in that order; a contact
\* whose acquire() or send raises BirdAPIError or another Exception counts
\* as a failure and the loop goes on to the next contact; when the loop has
\* run to its end, success_count + failure_count is the number of contacts,
\* acquire() has been called for every one of them, and the client has no
\* open session.
C28_BulkAccounting ==
    /\ [](run.stage \in {"loop", "finished"} =>
            LET n == Len(run.contacts)
                dealt == run.index - 1
            IN  /\ dealt <= n
                /\ run.success_count + run.failure_count = dealt
                /\ run.acquired = UpTo(IF pc[Bulker] = "idle" THEN dealt ELSE dealt + 1)
                /\ Len(run.acquired) <= n
                /\ \A i \in 1..Len(run.attempted):
                      /\ run.attempted[i] \in 1..dealt
                      /\ i > 1 => run.attempted[i - 1] < run.attempted[i]
                /\ run.success_count <= Len(run.attempted)
                /\ Positive => run.attempted = UpTo(dealt)
                /\ run.stage = "finished" =>
                      /\ dealt = n
                      /\ CurrentSession(sessions) # "open")
    /\ [][run'.failure_count = run.failure_count + 1 =>
            /\ run'.stage = "loop"
            /\ run'.index = run.index + 1
            /\ run'.success_count = run.success_count
            /\ pc'[Bulker] = "idle"]_vars

\* A loop over two contacts has run to its end with one success and one
\* failure; both sends were attempted.
C28_Witness ==
    /\ run.stage = "finished"
    /\ Len(run.contacts) = 2
    /\ run.success_count = 1 /\ run.failure_count = 1
    /\ run.attempted = << 1, 2 >>
    /\ sessions = << "closed" >>
====
